---- MODULE Spec2Model ----
(***************************************************************************)
(* Market catalog services of stock-scanner: AStockServiceAsync,           *)
(* HKStockServiceAsync, USStockServiceAsync and FundServiceAsync.          *)
(* Each service keeps a catalog table in memory (cache, cache_timestamp),  *)
(* persists it as a CSV file with a date column, refreshes it from the     *)
(* provider when it is older than cache_duration, and answers search and   *)
(* detail lookups from it.                                                 *)
(*                                                                         *)
(* Text is a sequence of one-character strings.  A table cell is one of    *)
(*   Str(s)  a string,  NaN  a missing value,  Num(s)  a number written s. *)
(* Time is counted in ticks, TicksPerSec of them to the second.            *)
(***************************************************************************)
EXTENDS Integers, Sequences, FiniteSets, TLC

VARIABLES
    market,           \* which service this behaviour is about
    svc,              \* "up": an instance exists; "failed": __init__ raised
    boot,             \* per key, what __init__ found on disk
    clock,            \* datetime.now(), in ticks
    events,           \* lookups started, clock advances and restarts so far
    cache,            \* self.cache / self.etf_cache / self.lof_cache
    cache_timestamp,  \* self.cache_timestamp / etf_ / lof_
    file,             \* the file at self.cache_file / etf_ / lof_
    task,             \* the lookups in flight, one record per task
    s_market,         \* search harness: the service searched
    s_df,             \* search harness: the table searched
    s_kw,             \* search harness: the keyword
    s_res,            \* search harness: the result of the last search
    gen,              \* the generator object of one get_ai_analysis call
    yielded           \* the events that generator has yielded so far

svcVars == <<market, svc, boot, clock, events, cache,
             cache_timestamp, file, task>>
searchVars == <<s_market, s_df, s_kw, s_res>>
genVars == <<gen, yielded>>
vars == <<svcVars, searchVars, genVars>>

----------------------------------------------------------------------------
(* Bounds of the model. *)

TicksPerSec == 2
MaxEvents == 3
MaxRows == 22
MaxMiss == 2
MaxLookupRows == 3

Tasks == {"t1", "t2"}
Markets == {"A", "HK", "US", "FUND"}

----------------------------------------------------------------------------
(* Cells and text. *)

Str(s) == [t |-> "str", s |-> s]
Num(s) == [t |-> "num", s |-> s]
NaN == [t |-> "nan", s |-> <<>>]

notna(c) == c.t # "nan"

DigitChars == {"0", "1", "2", "3", "4", "5", "6", "7", "8", "9"}

Min(a, b) == IF a <= b THEN a ELSE b

\* re.IGNORECASE folding of one character
Lower(c) ==
    CASE c = "A" -> "a"
      [] c = "B" -> "b"
      [] c = "C" -> "c"
      [] c = "N" -> "n"
      [] OTHER -> c

LowerText(s) == [i \in 1..Len(s) |-> Lower(s[i])]

\* str.contains takes the keyword for a regular expression (regex=True is
\* the default) and compiles it with re.IGNORECASE.  The patterns of the
\* model are made of letters, digits, "." and a leading "*": a letter or
\* digit matches itself in either case, "." matches any character, and a
\* pattern that begins with "*" does not compile (re.error: nothing to
\* repeat).
re_error(keyword) == Len(keyword) > 0 /\ keyword[1] = "*"

\* one character of the pattern against one character of the text
AtomMatches(p, ch) == p = "." \/ Lower(p) = Lower(ch)

\* Series.str.contains(keyword, case=False, na=False) on one cell, for a
\* keyword that compiles: re.search finds the pattern somewhere in the text
str_contains(c, keyword) ==
    /\ c.t = "str"
    /\ \E i \in 0..(Len(c.s) - Len(keyword)) :
          \A j \in 1..Len(keyword) : AtomMatches(keyword[j], c.s[i + j])

\* Series.str.replace(' ', '') on one cell
str_replace_space(c) ==
    IF c.t = "str" THEN Str(SelectSeq(c.s, LAMBDA ch : ch # " ")) ELSE c

\* decimal digits of a natural number, as text
DigitOf(n) ==
    CASE n = 0 -> "0" [] n = 1 -> "1" [] n = 2 -> "2" [] n = 3 -> "3"
      [] n = 4 -> "4" [] n = 5 -> "5" [] n = 6 -> "6" [] n = 7 -> "7"
      [] n = 8 -> "8" [] OTHER -> "9"

RECURSIVE Digits(_)
Digits(n) ==
    IF n < 10 THEN <<DigitOf(n)>> ELSE Digits(n \div 10) \o <<DigitOf(n % 10)>>

----------------------------------------------------------------------------
(* Per-service configuration. *)

\* the cache keys of a service: one catalog per equity service, two for funds
Keys(m) == IF m = "FUND" THEN {"ETF", "LOF"} ELSE {"ALL"}

\* the market_type values a caller can pass (funds only; any string is
\* accepted by search_funds / get_fund_detail)
Kinds(m) == IF m = "FUND" THEN {"ETF", "LOF", "OTHER"} ELSE {"ALL"}

\* the columns of the in-memory table
Columns(m) ==
    CASE m = "US" -> {"name", "cname", "symbol"}
      [] m = "FUND" -> {"symbol", "name", "price"}
      [] OTHER -> {"symbol", "name"}

\* the columns read_csv is told to keep as text: dtype={'symbol': str}
\* everywhere but in USStockServiceAsync
StrColumns(m) == IF m = "US" THEN {} ELSE {"symbol"}

\* the column the keyword is matched against
SearchColumn(m) == IF m = "US" THEN "cname" ELSE "name"

\* the column get_*_detail reads the name from
DetailNameColumn(m) == IF m = "US" THEN "cname" ELSE "name"

Day == 24 * 60 * 60 * TicksPerSec

\* self.cache_duration
cache_duration(m) == IF m = "US" THEN 25 * Day ELSE 5 * Day

\* the row count at which the formatting loop breaks
SearchCap(m) == IF m = "FUND" THEN 20 ELSE 10

----------------------------------------------------------------------------
(* Lookups on a table: search_stocks / search_us_stocks / search_funds and  *)
(* get_stock_detail / get_us_stock_detail / get_fund_detail, after the      *)
(* table has been obtained.                                                 *)

\* the boolean mask of the search
Mask(m, row, keyword) ==
    IF m = "FUND"
    THEN str_contains(row["name"], keyword) \/ str_contains(row["symbol"], keyword)
    ELSE str_contains(row[SearchColumn(m)], keyword)

\* str(row['symbol']) if pd.notna(row['symbol']) else ''
FormatStr(c) == IF notna(c) THEN Str(c.s) ELSE Str(<<>>)

\* row['name'] if pd.notna(row['name']) else ''
FormatRaw(c) == IF notna(c) THEN c ELSE Str(<<>>)

\* float(row['price']) if pd.notna(row['price']) else 0.0
FormatFloat(c) == IF notna(c) THEN Num(c.s) ELSE Num(<<"0">>)

\* one element of formatted_results
FormatRow(m, row) ==
    CASE m = "US" ->
            [name |-> FormatRaw(row["name"]), cname |-> FormatRaw(row["cname"]),
             symbol |-> FormatStr(row["symbol"])]
      [] m = "FUND" ->
            [name |-> FormatRaw(row["name"]), symbol |-> FormatStr(row["symbol"]),
             price |-> FormatFloat(row["price"])]
      [] OTHER ->
            [name |-> FormatRaw(row["name"]), symbol |-> FormatStr(row["symbol"])]

\* the loop over results.iterrows(): append, then break once the list has
\* reached the cap
SearchBreak(m, formatted_results) == Len(formatted_results) >= SearchCap(m)

RECURSIVE SearchLoop(_, _, _, _)
SearchLoop(m, results, i, formatted_results) ==
    IF i > Len(results) THEN formatted_results
    ELSE LET appended == Append(formatted_results, FormatRow(m, results[i]))
         IN  IF SearchBreak(m, appended) THEN appended
             ELSE SearchLoop(m, results, i + 1, appended)

search_stocks(m, df, keyword) ==
    SearchLoop(m, SelectSeq(df, LAMBDA row : Mask(m, row, keyword)), 1, <<>>)

\* df.loc[df['symbol'] == symbol] / df[df['symbol'] == symbol]
DetailRows(df, symbol) ==
    SelectSeq(df, LAMBDA row : row["symbol"] = Str(symbol))

\* the mapping returned by get_stock_detail / get_us_stock_detail /
\* get_fund_detail when a row matches
FormatDetail(m, symbol, row) ==
    IF m = "FUND"
    THEN [name |-> FormatRaw(row["name"]), symbol |-> FormatStr(row["symbol"]),
          price |-> FormatFloat(row["price"])]
    ELSE [symbol |-> Str(symbol), name |-> row[DetailNameColumn(m)]]

\* a detail that reads the last matching row
get_stock_detail_Last(m, df, symbol) ==
    LET result == DetailRows(df, symbol)
    IN  IF Len(result) = 0
        THEN [found |-> FALSE, rows |-> <<>>]
        ELSE [found |-> TRUE,
              rows |-> <<FormatDetail(m, symbol, result[Len(result)])>>]

\* [found, rows]: not found raises; found returns one mapping
get_stock_detail(m, df, symbol) ==
    LET result == DetailRows(df, symbol)
    IN  IF Len(result) = 0
        THEN [found |-> FALSE, rows |-> <<>>]
        ELSE [found |-> TRUE, rows |-> <<FormatDetail(m, symbol, result[1])>>]

----------------------------------------------------------------------------
(* The persisted file: DataFrame.to_csv and pandas.read_csv.                *)

\* strftime('%Y-%m-%d %H:%M:%S'): the time to the second
strftime(t) == [ok |-> TRUE, sec |-> t \div TicksPerSec]

\* a date cell that strptime cannot parse
BadDate == [ok |-> FALSE, sec |-> 0]

\* datetime.strptime(str_date, '%Y-%m-%d %H:%M:%S'), for a parseable text
strptime(d) == d.sec * TicksPerSec

NoFile == [kind |-> "absent", cols |-> {}, rows |-> <<>>]

\* the file right after open(path, 'w'): it exists and holds nothing
EmptyFile == [kind |-> "empty", cols |-> {}, rows |-> <<>>]

\* what to_csv writes for one cell: a missing value becomes the empty field
CellText(c) == IF c.t = "nan" THEN <<>> ELSE c.s

\* df['日期'] = text: every row of the table gets the date column
AddDate(df, date) ==
    [i \in 1..Len(df) |->
        [c \in DOMAIN df[i] \cup {"date"} |-> IF c = "date" THEN date ELSE df[i][c]]]

\* df.pop('日期'): the date column is taken out of the table
pop(df) ==
    [i \in 1..Len(df) |-> [c \in DOMAIN df[i] \ {"date"} |-> df[i][c]]]

\* df.to_csv(path, index=False) of a table whose date column is `date`
to_csv(m, df, date) ==
    [kind |-> "table",
     cols |-> Columns(m) \cup {"date"},
     rows |-> [i \in 1..Len(df) |->
                 [c \in Columns(m) \cup {"date"} |->
                     IF c = "date" THEN date ELSE CellText(df[i][c])]]]

\* the fields read_csv takes for missing, among the texts of the model
NAValues == {<<>>, <<"N", "A">>, <<"N", "a", "N">>, <<"n", "a", "n">>}

IsNumberText(s) ==
    /\ Len(s) > 0
    /\ \A i \in 1..Len(s) : s[i] \in DigitChars \cup {"."}
    /\ \E i \in 1..Len(s) : s[i] \in DigitChars
    /\ Cardinality({i \in 1..Len(s) : s[i] = "."}) <= 1

\* the number a numeric field is read as: leading zeros are gone
RECURSIVE Canon(_)
Canon(s) ==
    IF Len(s) > 1 /\ s[1] = "0" /\ s[2] \in DigitChars THEN Canon(Tail(s)) ELSE s

\* read_csv infers a column without a dtype to be numeric when every field
\* that is not missing parses as a number
ColumnIsNumeric(rows, c) ==
    \A i \in 1..Len(rows) : rows[i][c] \in NAValues \/ IsNumberText(rows[i][c])

ParseCell(m, rows, c, text) ==
    IF text \in NAValues THEN NaN
    ELSE IF c \in StrColumns(m) THEN Str(text)
    ELSE IF ColumnIsNumeric(rows, c) THEN Num(Canon(text))
    ELSE Str(text)

\* pd.read_csv(...) followed by df.pop('日期'): the table without its date
read_csv(m, f) ==
    [i \in 1..Len(f.rows) |->
        [c \in f.cols \ {"date"} |-> ParseCell(m, f.rows, c, f.rows[i][c])]]

\* whether the load in __init__ raises on this file: read_csv on a file
\* that holds nothing, df['日期'] without that column, .iloc[0] of no rows,
\* strptime of a text in another format
LoadRaises(f) ==
    /\ f.kind # "absent"
    /\ \/ f.kind = "empty"
       \/ "date" \notin f.cols
       \/ Len(f.rows) = 0
       \/ ~f.rows[1]["date"].ok

None == [some |-> FALSE, v |-> <<>>]
Some(v) == [some |-> TRUE, v |-> v]
NoneTs == [some |-> FALSE, v |-> 0]

\* the cache and timestamp __init__ leaves for one key when it does not raise
LoadedCache(m, f) ==
    IF f.kind = "absent" THEN None ELSE Some(read_csv(m, f))

LoadedTimestamp(f) ==
    IF f.kind = "absent" THEN NoneTs ELSE Some(strptime(f.rows[1]["date"]))

----------------------------------------------------------------------------
(* The provider (akshare).                                                  *)

TxtAsB == <<"a", " ", "B">>
TxtAB == <<"a", "B">>
TxtBC == <<"b", "c">>
TxtC == <<"c">>
Txt007 == <<"0", "0", "7">>
Txt010 == <<"0", "1", "0">>
TxtNA == <<"N", "A">>
TxtAAB == <<"A", "A", "B">>

\* what a provider call can return, with the provider's columns already
\* renamed: two catalogs and the catalog of no rows
ProviderTables(m) ==
    CASE m = "US" ->
            {<<[name |-> Str(TxtAB), cname |-> Str(TxtBC), symbol |-> Str(TxtAAB)],
               [name |-> Str(TxtC), cname |-> NaN, symbol |-> Str(TxtNA)]>>,
             <<[name |-> Str(TxtBC), cname |-> Str(TxtAB), symbol |-> Str(TxtAAB)]>>,
             <<>>}
      [] m = "FUND" ->
            {<<[symbol |-> Str(Txt007), name |-> Str(TxtAB),
                price |-> Num(<<"1", ".", "5">>)],
               [symbol |-> Str(Txt010), name |-> Str(TxtC), price |-> NaN]>>,
             <<[symbol |-> Str(Txt010), name |-> Str(TxtBC), price |-> Num(<<"2">>)]>>,
             <<>>}
      [] OTHER ->
            {<<[symbol |-> Str(Txt007), name |-> Str(TxtAsB)],
               [symbol |-> Str(Txt010), name |-> NaN]>>,
             <<[symbol |-> Str(Txt010), name |-> Str(TxtBC)]>>,
             <<>>}

\* the cleanup between the provider call and the save: AStockServiceAsync
\* removes the spaces of every name
Cleanup(m, raw) ==
    IF m = "A"
    THEN [i \in 1..Len(raw) |-> [raw[i] EXCEPT !["name"] = str_replace_space(@)]]
    ELSE raw

\* the lookups a caller makes in the model
Keyword == <<"b">>
Symbol == Txt007

----------------------------------------------------------------------------
(* The service.                                                             *)

\* the cache a lookup with this market_type reads and replaces: every
\* market_type but 'ETF' takes the else branch of the refresh
KeyOf(kind) ==
    CASE kind = "ETF" -> "ETF"
      [] kind = "ALL" -> "ALL"
      [] OTHER -> "LOF"

\* the gate with the comparison <= in place of <
is_fresh_Inclusive(m, now, ts) == (now - ts) <= cache_duration(m)

\* (now - self.cache_timestamp) < self.cache_duration
is_fresh(m, now, ts) == (now - ts) < cache_duration(m)

\* what a lookup gave its caller: rows, or an exception
NoResult ==
    [status |-> "none", op |-> "none", rows |-> <<>>, err |-> "none", msg |-> <<>>]
Error(op, e) ==
    [status |-> "err", op |-> op, rows |-> <<>>, err |-> e, msg |-> <<>>]
Ok(op, rows) ==
    [status |-> "ok", op |-> op, rows |-> rows, err |-> "none", msg |-> <<>>]

\* raise Exception(f"未找到股票代码{symbol}的股票简称"): msg is the text put
\* into the message
NotFound(symbol) ==
    [status |-> "err", op |-> "detail", rows |-> <<>>, err |-> "notfound",
     msg |-> symbol]

IdleTask ==
    [pc |-> "idle", kind |-> "ALL", now |-> 0, df |-> <<>>, stamp |-> strftime(0),
     fetches |-> 0, solo |-> FALSE, cold |-> FALSE, cancelled |-> FALSE,
     res |-> NoResult]

\* the files a first construction can find: none, a file that holds
\* nothing, a table saved at time 0, a table whose date does not parse, a
\* table without a date column
FoundFiles(m) ==
    {NoFile,
     EmptyFile,
     to_csv(m, Cleanup(m, CHOOSE T \in ProviderTables(m) : Len(T) = 1), strftime(0)),
     to_csv(m, Cleanup(m, CHOOSE T \in ProviderTables(m) : Len(T) = 1), BadDate),
     [kind |-> "table", cols |-> Columns(m),
      rows |-> [i \in 1..1 |->
                  [c \in Columns(m) |->
                      CellText((CHOOSE T \in ProviderTables(m) : Len(T) = 1)[i][c])]]]}

\* what __init__ found at a key: no file, a file that loads, one that does not
FileClass(f) ==
    IF f.kind = "absent" THEN "absent"
    ELSE IF /\ f.kind = "table"
            /\ "date" \in f.cols
            /\ \A i \in 1..Len(f.rows) : f.rows[i]["date"].ok
         THEN "table"
         ELSE "malformed"

\* __init__: the fields of a new instance over the files `f`, or "failed"
\* when one of the loads raises (nothing in __init__ catches)
__init__(m, f) ==
    IF \E k \in Keys(m) : LoadRaises(f[k])
    THEN [svc |-> "failed",
          cache |-> [k \in Keys(m) |-> None],
          cache_timestamp |-> [k \in Keys(m) |-> NoneTs]]
    ELSE [svc |-> "up",
          cache |-> [k \in Keys(m) |-> LoadedCache(m, f[k])],
          cache_timestamp |-> [k \in Keys(m) |-> LoadedTimestamp(f[k])]]

\* no analysis has been asked for
NoGen ==
    [pc |-> "none", stream |-> FALSE, buffer |-> <<>>, chunk_count |-> 0,
     at_yield |-> FALSE, e |-> "none"]

AnalyzerIdle ==
    /\ gen = NoGen
    /\ yielded = <<>>

SearchIdle ==
    /\ s_market = "A"
    /\ s_df = <<>>
    /\ s_kw = <<>>
    /\ s_res = NoResult

Init ==
    /\ market \in Markets
    /\ file \in [Keys(market) -> FoundFiles(market)]
    /\ clock = 0
    /\ events = 0
    /\ boot = [k \in Keys(market) |-> FileClass(file[k])]
    /\ task = [t \in Tasks |-> IdleTask]
    /\ svc = __init__(market, file).svc
    /\ cache = __init__(market, file).cache
    /\ cache_timestamp = __init__(market, file).cache_timestamp
    /\ SearchIdle
    /\ AnalyzerIdle

\* the process is started again: a new instance is constructed over the
\* files as they are, and the lookups of the old process are gone
Restart ==
    /\ events < MaxEvents
    /\ events' = events + 1
    /\ boot' = [k \in Keys(market) |-> FileClass(file[k])]
    /\ task' = [t \in Tasks |-> IdleTask]
    /\ svc' = __init__(market, file).svc
    /\ cache' = __init__(market, file).cache
    /\ cache_timestamp' = __init__(market, file).cache_timestamp
    /\ UNCHANGED <<market, clock, file, searchVars, genVars>>

\* the clock steps of the model: one tick, and one tick short of the
\* time-to-live
ClockSteps(m) == {1, cache_duration(m) - 1}

Tick ==
    /\ events < MaxEvents
    /\ events' = events + 1
    /\ \E d \in ClockSteps(market) : clock' = clock + d
    /\ UNCHANGED <<market, svc, boot, cache, cache_timestamp,
                   file, task, searchVars, genVars>>

\* the program points at which a lookup is running (on the event loop for
\* funds, on its worker thread or the event loop for the equity services)
\* rather than waiting for the provider
RunningPcs ==
    {"chk_cache", "chk_ts", "ret_cache", "to_csv_open",
     "to_csv_write", "set_cache", "set_ts", "lookup", "done"}

\* FundServiceAsync runs everything but the provider call on the event
\* loop: between two awaits no other coroutine runs.  The equity services
\* run _get_all_stocks_data on worker threads, which interleave freely.
CanRun(t) ==
    /\ svc = "up"
    /\ market = "FUND" => \A u \in Tasks \ {t} : task[u].pc \notin RunningPcs

Frame == UNCHANGED <<market, svc, boot, clock, searchVars, genVars>>

\* a lookup is called, search_* or get_*_detail with a market_type, and
\* reads the clock: now = datetime.now().  A market_type that is neither
\* 'ETF' nor 'LOF' skips both freshness checks.  Which of the two lookups
\* it is plays no part before the table is obtained, and is drawn in
\* Lookup.  Task names carry no meaning: "t2" is used only while "t1" is
\* in use.
Call(t) ==
    /\ CanRun(t)
    /\ task[t].pc = "idle"
    /\ t = "t2" => task["t1"].pc # "idle"
    /\ events < MaxEvents
    /\ events' = events + 1
    /\ \E kind \in Kinds(market) :
          task' = [u \in Tasks |->
                     IF u = t
                     THEN [IdleTask EXCEPT
                              !.pc = IF kind = "OTHER" THEN "fetch" ELSE "chk_cache",
                              !.kind = kind,
                              !.now = clock,
                              !.cold = ~cache[KeyOf(kind)].some,
                              !.solo = \A v \in Tasks \ {t} : task[v].pc = "idle"]
                     ELSE [task[u] EXCEPT !.solo = FALSE]]
    /\ UNCHANGED <<cache, cache_timestamp, file>>
    /\ Frame

\* self.cache is not None
CheckCache(t) ==
    /\ CanRun(t)
    /\ task[t].pc = "chk_cache"
    /\ LET c == cache[KeyOf(task[t].kind)]
       IN  task' = [task EXCEPT ![t].pc = IF c.some THEN "chk_ts" ELSE "fetch"]
    /\ UNCHANGED <<events, cache, cache_timestamp, file>>
    /\ Frame

\* a freshness check that joins a refresh of the same key already under
\* way instead of starting its own
CheckTs_Join(t) ==
    /\ CanRun(t)
    /\ task[t].pc = "chk_ts"
    /\ LET ts == cache_timestamp[KeyOf(task[t].kind)]
           joins == \E u \in Tasks \ {t} :
                       /\ task[u].pc = "fetch"
                       /\ KeyOf(task[u].kind) = KeyOf(task[t].kind)
       IN  task' = [task EXCEPT
                      ![t].pc = IF ~ts.some THEN "done"
                                ELSE IF is_fresh(market, task[t].now, ts.v)
                                     THEN "ret_cache"
                                     ELSE IF joins THEN "ret_cache" ELSE "fetch",
                      ![t].res = IF ~ts.some THEN Error("any", "TypeError") ELSE @]
    /\ UNCHANGED <<events, cache, cache_timestamp, file>>
    /\ Frame

\* (now - self.cache_timestamp) < self.cache_duration; the subtraction
\* raises TypeError when the timestamp is None
CheckTs(t) ==
    /\ CanRun(t)
    /\ task[t].pc = "chk_ts"
    /\ LET ts == cache_timestamp[KeyOf(task[t].kind)]
       IN  task' = [task EXCEPT
                      ![t].pc = IF ~ts.some THEN "done"
                                ELSE IF is_fresh(market, task[t].now, ts.v)
                                     THEN "ret_cache" ELSE "fetch",
                      ![t].res = IF ~ts.some THEN Error("any", "TypeError") ELSE @]
    /\ UNCHANGED <<events, cache, cache_timestamp, file>>
    /\ Frame

\* return self.cache
ReturnCache(t) ==
    /\ CanRun(t)
    /\ task[t].pc = "ret_cache"
    /\ task' = [task EXCEPT ![t].df = cache[KeyOf(task[t].kind)].v,
                            ![t].pc = "lookup"]
    /\ UNCHANGED <<events, cache, cache_timestamp, file>>
    /\ Frame

\* the provider call returns a table.  In FundServiceAsync the rest of the
\* refresh is in the coroutine: when the coroutine was cancelled at the
\* await, the worker thread still ends its call and the table is dropped.
ProviderOk(t) ==
    /\ CanRun(t)
    /\ task[t].pc = "fetch"
    /\ \E raw \in ProviderTables(market) :
          task' = [task EXCEPT
                     ![t].df = Cleanup(market, raw),
                     ![t].fetches = @ + 1,
                     ![t].pc = IF market = "FUND" /\ task[t].cancelled
                               THEN "done" ELSE "to_csv_open",
                     ![t].res = IF market = "FUND" /\ task[t].cancelled
                                THEN Error("any", "cancelled") ELSE @]
    /\ UNCHANGED <<events, cache, cache_timestamp, file>>
    /\ Frame

\* the provider call raises
ProviderRaise(t) ==
    /\ svc = "up"
    /\ task[t].pc = "fetch"
    /\ task' = [task EXCEPT ![t].fetches = @ + 1, ![t].pc = "raised"]
    /\ UNCHANGED <<events, cache, cache_timestamp, file>>
    /\ Frame

\* an except clause that answers from the table in memory when there is one
HandleRaise_ServeStale(t) ==
    /\ CanRun(t)
    /\ task[t].pc = "raised"
    /\ LET c == cache[KeyOf(task[t].kind)]
       IN  task' = [task EXCEPT
                      ![t].res = IF c.some THEN Ok("search", search_stocks(market, c.v, Keyword))
                                 ELSE Error("any", "provider"),
                      ![t].pc = "done"]
    /\ UNCHANGED <<events, cache, cache_timestamp, file>>
    /\ Frame

\* an except clause that removes the cache file
HandleRaise_Unlink(t) ==
    /\ CanRun(t)
    /\ task[t].pc = "raised"
    /\ file' = [file EXCEPT ![KeyOf(task[t].kind)] = NoFile]
    /\ task' = [task EXCEPT ![t].res = Error("any", "provider"), ![t].pc = "done"]
    /\ UNCHANGED <<events, cache, cache_timestamp>>
    /\ Frame

\* the except clauses of the refresh and of the lookup: each logs and
\* raises again, so the caller of the lookup gets the exception
HandleRaise(t) ==
    /\ CanRun(t)
    /\ task[t].pc = "raised"
    /\ task' = [task EXCEPT ![t].res = Error("any", "provider"), ![t].pc = "done"]
    /\ UNCHANGED <<events, cache, cache_timestamp, file>>
    /\ Frame

\* df['日期'] = str(datetime.now().strftime('%Y-%m-%d %H:%M:%S')), and the
\* first half of df.to_csv(self.cache_file, index=False): the file is
\* opened for writing, which empties it
ToCsvOpen(t) ==
    /\ CanRun(t)
    /\ task[t].pc = "to_csv_open"
    /\ file' = [file EXCEPT ![KeyOf(task[t].kind)] = EmptyFile]
    /\ task' = [task EXCEPT ![t].stamp = strftime(clock),
                            ![t].df = AddDate(@, strftime(clock)),
                            ![t].pc = "to_csv_write"]
    /\ UNCHANGED <<events, cache, cache_timestamp>>
    /\ Frame

\* df.to_csv, second half: the table is written and the file closed
ToCsvWrite(t) ==
    /\ CanRun(t)
    /\ task[t].pc = "to_csv_write"
    /\ file' = [file EXCEPT ![KeyOf(task[t].kind)] =
                                to_csv(market, task[t].df, task[t].stamp)]
    /\ task' = [task EXCEPT ![t].pc = "set_cache"]
    /\ UNCHANGED <<events, cache, cache_timestamp>>
    /\ Frame

\* a refresh that stores the table before the date column is taken out
SetCache_NoPop(t) ==
    /\ CanRun(t)
    /\ task[t].pc = "set_cache"
    /\ cache' = [cache EXCEPT ![KeyOf(task[t].kind)] = Some(task[t].df)]
    /\ task' = [task EXCEPT ![t].pc = "set_ts"]
    /\ UNCHANGED <<events, cache_timestamp, file>>
    /\ Frame

\* a refresh that leaves the table in memory as it was
SetCache_Skip(t) ==
    /\ CanRun(t)
    /\ task[t].pc = "set_cache"
    /\ task' = [task EXCEPT ![t].df = pop(@), ![t].pc = "set_ts"]
    /\ UNCHANGED <<events, cache, cache_timestamp, file>>
    /\ Frame

\* df.pop('日期'); self.cache = df
SetCache(t) ==
    /\ CanRun(t)
    /\ task[t].pc = "set_cache"
    /\ cache' = [cache EXCEPT ![KeyOf(task[t].kind)] = Some(pop(task[t].df))]
    /\ task' = [task EXCEPT ![t].df = pop(@), ![t].pc = "set_ts"]
    /\ UNCHANGED <<events, cache_timestamp, file>>
    /\ Frame

\* the value stored as the timestamp of the new table
NewTimestamp(t) == task[t].now

\* self.cache_timestamp = now; return df
SetTs(t) ==
    /\ CanRun(t)
    /\ task[t].pc = "set_ts"
    /\ cache_timestamp' = [cache_timestamp EXCEPT ![KeyOf(task[t].kind)] =
                                                     Some(NewTimestamp(t))]
    /\ task' = [task EXCEPT ![t].pc = "lookup"]
    /\ UNCHANGED <<events, cache, file>>
    /\ Frame

\* search_stocks / search_us_stocks / search_funds on the table obtained:
\* the compilation of the keyword raises inside the try, and the except
\* clause raises Exception(error_msg) to the caller
search_result(m, df, keyword) ==
    IF re_error(keyword) THEN Error("search", "re.error")
    ELSE Ok("search", search_stocks(m, df, keyword))

\* get_stock_detail / get_us_stock_detail / get_fund_detail on the table
\* obtained
detail_result(m, df, symbol) ==
    IF get_stock_detail(m, df, symbol).found
    THEN Ok("detail", get_stock_detail(m, df, symbol).rows)
    ELSE NotFound(symbol)

\* the result of the lookup on the table obtained
LookupResult(m, op, df) ==
    IF op = "search" THEN search_result(m, df, Keyword)
    ELSE detail_result(m, df, Symbol)

\* a lookup that stamps the snapshot it was answered from as read now
Lookup_Touch(t) ==
    /\ CanRun(t)
    /\ task[t].pc = "lookup"
    /\ ~task[t].cancelled
    /\ \E op \in {"search", "detail"} :
          task' = [task EXCEPT ![t].res = LookupResult(market, op, task[t].df),
                               ![t].pc = "done"]
    /\ cache_timestamp' = [cache_timestamp EXCEPT ![KeyOf(task[t].kind)] =
                                                     Some(clock)]
    /\ UNCHANGED <<events, cache, file>>
    /\ Frame

\* the rest of search_* / get_*_detail, after the await
Lookup(t) ==
    /\ CanRun(t)
    /\ task[t].pc = "lookup"
    /\ ~task[t].cancelled
    /\ \E op \in {"search", "detail"} :
          task' = [task EXCEPT ![t].res = LookupResult(market, op, task[t].df),
                               ![t].pc = "done"]
    /\ UNCHANGED <<events, cache, cache_timestamp, file>>
    /\ Frame

\* the caller has its result (or its exception)
Return(t) ==
    /\ CanRun(t)
    /\ task[t].pc = "done"
    /\ task' = [task EXCEPT ![t] = IdleTask]
    /\ UNCHANGED <<events, cache, cache_timestamp, file>>
    /\ Frame

\* the program points at which the coroutine of a lookup is suspended: at
\* `await asyncio.to_thread(...)`, which in the equity services spans the
\* whole of _get_all_stocks_data and in FundServiceAsync the provider call
SuspendedPcs(m) ==
    IF m = "FUND" THEN {"fetch", "raised"}
    ELSE {"chk_cache", "chk_ts", "ret_cache", "fetch", "raised",
          "to_csv_open", "to_csv_write", "set_cache", "set_ts"}

\* a cancellation that also ends the worker thread
Cancel_Abort(t) ==
    /\ svc = "up"
    /\ task[t].pc \in SuspendedPcs(market)
    /\ ~task[t].cancelled
    /\ task' = [task EXCEPT ![t].cancelled = TRUE,
                            ![t].res = Error("any", "cancelled"),
                            ![t].pc = "done"]
    /\ UNCHANGED <<events, cache, cache_timestamp, file>>
    /\ Frame

\* the caller of a suspended lookup is cancelled: CancelledError is thrown
\* into the coroutine at the await (no except clause of the services
\* catches it, it is not an Exception); the function given to
\* asyncio.to_thread goes on in its worker thread
Cancel(t) ==
    /\ svc = "up"
    /\ task[t].pc \in SuspendedPcs(market)
    /\ ~task[t].cancelled
    /\ task' = [task EXCEPT ![t].cancelled = TRUE]
    /\ UNCHANGED <<events, cache, cache_timestamp, file>>
    /\ Frame

\* the worker thread of a cancelled lookup returns its table: nobody waits
\* for it
Discard(t) ==
    /\ svc = "up"
    /\ task[t].pc = "lookup"
    /\ task[t].cancelled
    /\ task' = [task EXCEPT ![t].res = Error("any", "cancelled"), ![t].pc = "done"]
    /\ UNCHANGED <<events, cache, cache_timestamp, file>>
    /\ Frame

Next ==
    \/ Tick
    \/ Restart
    \/ \E t \in Tasks : Call(t)
    \/ \E t \in Tasks : CheckCache(t)
    \/ \E t \in Tasks : CheckTs(t)
    \/ \E t \in Tasks : ReturnCache(t)
    \/ \E t \in Tasks : ProviderOk(t)
    \/ \E t \in Tasks : ProviderRaise(t)
    \/ \E t \in Tasks : HandleRaise(t)
    \/ \E t \in Tasks : ToCsvOpen(t)
    \/ \E t \in Tasks : ToCsvWrite(t)
    \/ \E t \in Tasks : SetCache(t)
    \/ \E t \in Tasks : SetTs(t)
    \/ \E t \in Tasks : Lookup(t)
    \/ \E t \in Tasks : Return(t)

Spec == Init /\ [][Next]_vars

\* The services constructed over a file that was saved one time-to-live
\* ago: the snapshot loaded is stale from the first lookup on.
StaleInit ==
    /\ market \in Markets
    /\ file = [k \in Keys(market) |->
                 to_csv(market,
                        Cleanup(market, CHOOSE T \in ProviderTables(market) : Len(T) = 1),
                        strftime(0))]
    /\ clock = cache_duration(market)
    /\ events = 0
    /\ boot = [k \in Keys(market) |-> FileClass(file[k])]
    /\ task = [t \in Tasks |-> IdleTask]
    /\ svc = __init__(market, file).svc
    /\ cache = __init__(market, file).cache
    /\ cache_timestamp = __init__(market, file).cache_timestamp
    /\ SearchIdle
    /\ AnalyzerIdle

SpecStale == StaleInit /\ [][Next]_vars

\* The services with cancellation, started with no cache file.  A provider
\* call that is under way in a worker thread ends: it returns or it raises.
CancelInit == Init /\ \A k \in Keys(market) : file[k] = NoFile

CancelNext ==
    \/ \E t \in Tasks : Call(t)
    \/ \E t \in Tasks : Cancel(t)
    \/ \E t \in Tasks : CheckCache(t)
    \/ \E t \in Tasks : CheckTs(t)
    \/ \E t \in Tasks : ReturnCache(t)
    \/ \E t \in Tasks : ProviderOk(t)
    \/ \E t \in Tasks : ProviderRaise(t)
    \/ \E t \in Tasks : HandleRaise(t)
    \/ \E t \in Tasks : ToCsvOpen(t)
    \/ \E t \in Tasks : ToCsvWrite(t)
    \/ \E t \in Tasks : SetCache(t)
    \/ \E t \in Tasks : SetTs(t)
    \/ \E t \in Tasks : Lookup(t)
    \/ \E t \in Tasks : Discard(t)
    \/ \E t \in Tasks : Return(t)

SpecCancel ==
    /\ CancelInit
    /\ [][CancelNext]_vars
    /\ \A t \in Tasks : WF_vars(ProviderOk(t) \/ ProviderRaise(t))

TypeOK ==
    /\ market \in Markets
    /\ svc \in {"up", "failed"}
    /\ \A t \in Tasks : task[t].fetches \in 0..1

----------------------------------------------------------------------------
(* Steps of one lookup, as seen in a pair of states.                        *)

\* task t takes a step of its own (a restart makes every task idle)
Moves(t) == task'[t].pc # task[t].pc /\ task'[t].pc # "idle"

\* the age the lookup of task t sees for the timestamp now stored at its key
Age(t) == task[t].now - cache_timestamp[KeyOf(task[t].kind)].v

\* a table is in memory for the key of task t, with a timestamp
HasSnapshot(t) ==
    /\ cache[KeyOf(task[t].kind)].some
    /\ cache_timestamp[KeyOf(task[t].kind)].some

----------------------------------------------------------------------------
(* C1.  Freshness gate: a lookup for a cache key returns the table in       *)
(* memory, without a provider call, exactly when a table is in memory and   *)
(* now - captured_at < ttl, strictly; with no table in memory, or with      *)
(* now - captured_at >= ttl, it goes to the provider.                       *)

C1_GateStep(t) ==
    /\ (task[t].pc = "chk_cache" /\ Moves(t)) =>
          /\ task'[t].pc = "fetch" <=> ~cache[KeyOf(task[t].kind)].some
          /\ task'[t].pc = "chk_ts" <=> cache[KeyOf(task[t].kind)].some
    /\ (task[t].pc = "chk_ts" /\ Moves(t)) =>
          /\ task'[t].pc = "ret_cache" <=>
                (HasSnapshot(t) /\ Age(t) < cache_duration(market))
          /\ (HasSnapshot(t) /\ Age(t) >= cache_duration(market)) =>
                task'[t].pc = "fetch"
    /\ (task[t].pc = "ret_cache" /\ Moves(t)) =>
          /\ task'[t].pc = "lookup"
          /\ task'[t].df = cache[KeyOf(task[t].kind)].v
          /\ task'[t].fetches = 0
    /\ (task[t].pc = "fetch" /\ Moves(t)) =>
          /\ task'[t].pc \in {"to_csv_open", "raised"}
          /\ task'[t].fetches = 1

C1_FreshnessGate == [][\A t \in Tasks : C1_GateStep(t)]_vars

\* a lookup found the table exactly ttl old and is about to call the provider
C1_Witness ==
    \E t \in Tasks :
        /\ task[t].pc = "fetch"
        /\ task[t].kind # "OTHER"
        /\ HasSnapshot(t)
        /\ Age(t) = cache_duration(market)

----------------------------------------------------------------------------
(* C2.  When the provider call of a refresh raises, the caller of the       *)
(* lookup gets the exception, never rows of the table in memory, and the    *)
(* lookup has changed neither the table in memory nor its timestamp.        *)

\* the steps of a lookup up to and including a failed provider call
FailingPath(t) ==
    /\ task[t].pc \in {"idle", "chk_cache", "chk_ts", "fetch", "raised"}
    /\ Moves(t)
    /\ task'[t].pc \in {"chk_cache", "chk_ts", "fetch", "raised", "done"}

C2_FailStep(t) ==
    /\ FailingPath(t) => UNCHANGED <<cache, cache_timestamp>>
    /\ (task[t].pc = "raised" /\ Moves(t)) =>
          /\ task'[t].pc = "done"
          /\ task'[t].res.status = "err"
          /\ task'[t].res.rows = <<>>

C2_FailurePropagates == [][\A t \in Tasks : C2_FailStep(t)]_vars

\* a refresh of a stale table failed and its caller has the exception
C2_Witness ==
    \E t \in Tasks :
        /\ task[t].pc = "done"
        /\ task[t].res.err = "provider"
        /\ ~task[t].cold
        /\ task[t].kind # "OTHER"
        /\ cache[KeyOf(task[t].kind)].some
        /\ Len(cache[KeyOf(task[t].kind)].v) > 0

----------------------------------------------------------------------------
(* C3.  When the provider call of a refresh raises, the lookup leaves the   *)
(* persisted file as it was: no file is created where there was none, and   *)
(* an existing file keeps its contents.                                     *)

C3_FailStep(t) == FailingPath(t) => UNCHANGED file

C3_FailureKeepsFile == [][\A t \in Tasks : C3_FailStep(t)]_vars

\* a refresh failed on a cold start and there is still no file
C3_Witness ==
    \E t \in Tasks :
        /\ task[t].pc = "done"
        /\ task[t].res.err = "provider"
        /\ task[t].cold
        /\ file[KeyOf(task[t].kind)].kind = "absent"

----------------------------------------------------------------------------
(* A refresh that ran alone has just ended: task t has stored the table     *)
(* and the timestamp, and no other lookup was in flight during its call.    *)

RefreshedAlone(t) ==
    /\ task[t].pc = "lookup"
    /\ task[t].kind \in Keys(market)
    /\ task[t].fetches = 1
    /\ task[t].solo

----------------------------------------------------------------------------
(* C4.  After a successful refresh, with no other refresh in flight, the    *)
(* persisted file holds the rows of the new table in memory and a date      *)
(* column equal to the timestamp in memory (to the second, the resolution   *)
(* of the file), also when the clock advances while the refresh runs.       *)

C4_FileMatchesMemory ==
    \A t \in Tasks :
        RefreshedAlone(t) =>
            LET k == KeyOf(task[t].kind)
            IN  file[k] = to_csv(market, cache[k].v, strftime(cache_timestamp[k].v))

----------------------------------------------------------------------------
(* C5.  Round trip: after a refresh has saved its table, a new instance     *)
(* constructed over that file holds the same rows (symbols as strings) and  *)
(* the same timestamp to the second.                                        *)

C5_RoundTrip ==
    \A t \in Tasks :
        RefreshedAlone(t) =>
            LET k == KeyOf(task[t].kind)
            IN  /\ __init__(market, file).svc = "up"
                /\ __init__(market, file).cache[k] = cache[k]
                /\ strftime(__init__(market, file).cache_timestamp[k].v)
                     = strftime(cache_timestamp[k].v)

----------------------------------------------------------------------------
(* C6.  For one cache key the timestamp in memory never decreases: every    *)
(* value a lookup stores as the timestamp is greater than or equal to the   *)
(* value it replaces, concurrent refreshes of the key included.             *)

C6_StoreStep(t) ==
    LET k == KeyOf(task[t].kind)
    IN  (/\ task[t].pc = "set_ts"
         /\ task[t].kind \in Keys(market)
         /\ Moves(t)
         /\ cache_timestamp[k].some) =>
            cache_timestamp'[k].v >= cache_timestamp[k].v

C6_TimestampMonotone == [][\A t \in Tasks : C6_StoreStep(t)]_vars

----------------------------------------------------------------------------
(* C7.  A persisted file that exists but is malformed (a date that does not *)
(* parse, no date column, a table that cannot be read) is not fatal: the    *)
(* construction succeeds, with no table in memory for that key.             *)

C7_MalformedNonFatal ==
    \A k \in Keys(market) :
        boot[k] = "malformed" => svc = "up"

----------------------------------------------------------------------------
(* C8.  Cold start: with no persisted file the construction succeeds, and   *)
(* a single search on the empty cache makes exactly one provider call; when *)
(* the provider answers, the search has written the file, stored the        *)
(* fetched rows as the table in memory, and returns matches drawn only from *)
(* the fetched rows.                                                        *)

\* the search of task t is over, it ran alone, and it began with no file
\* and no table in memory for its key
ColdSearchDone(t) ==
    /\ task[t].pc = "done"
    /\ task[t].solo
    /\ task[t].cold
    /\ boot[KeyOf(task[t].kind)] = "absent"
    /\ task[t].res.op \in {"search", "any"}

C8_ColdStart ==
    /\ (\A k \in Keys(market) : boot[k] = "absent") => svc = "up"
    /\ \A t \in Tasks :
          ColdSearchDone(t) =>
              LET k == KeyOf(task[t].kind)
                  rows == task[t].res.rows
              IN  /\ task[t].fetches = 1
                  /\ task[t].res.err \in {"none", "provider"}
                  /\ task[t].res.status = "ok" =>
                        /\ file[k] = to_csv(market, task[t].df, task[t].stamp)
                        /\ cache[k] = Some(task[t].df)
                        /\ \A i \in 1..Len(rows) :
                              \E j \in 1..Len(task[t].df) :
                                  /\ Mask(market, task[t].df[j], Keyword)
                                  /\ rows[i] = FormatRow(market, task[t].df[j])

\* a search on a cold start has returned a match
C8_Witness ==
    \E t \in Tasks :
        /\ ColdSearchDone(t)
        /\ \A k \in Keys(market) : boot[k] = "absent"
        /\ task[t].res.status = "ok"
        /\ Len(task[t].res.rows) > 0

----------------------------------------------------------------------------
(* C9.  Warm restart: when the persisted files were written by earlier      *)
(* refreshes, the construction succeeds and seeds the table and timestamp   *)
(* in memory from them, and a lookup that runs alone while                  *)
(* now - captured_at < ttl does not go to the provider.                     *)

C9_WarmRestart ==
    (/\ \A k \in Keys(market) : boot[k] \in {"absent", "table"}
     /\ \E k \in Keys(market) : boot[k] = "table") =>
        /\ svc = "up"
        /\ \A t \in Tasks :
              (/\ task[t].pc \in {"fetch", "raised", "to_csv_open"}
               /\ task[t].solo
               /\ task[t].kind \in Keys(market)
               /\ HasSnapshot(t)) =>
                  Age(t) >= cache_duration(market)

----------------------------------------------------------------------------
(* The search on its own: tables of up to MaxRows rows are built row by     *)
(* row and searched.  The n-th row has the symbol n; a row either has the   *)
(* name "aB" or the name "c", and at most MaxMiss rows have the latter.     *)

SearchKeywords == {<<"b">>, <<"1">>, <<".">>, <<"*", "b">>}

SearchRow(m, n, hit) ==
    LET nm == IF hit THEN Str(TxtAB) ELSE Str(TxtC)
    IN  CASE m = "US" ->
                [name |-> Str(TxtC), cname |-> nm, symbol |-> Str(Digits(n))]
          [] m = "FUND" ->
                [symbol |-> Str(Digits(n)), name |-> nm, price |-> Num(<<"2">>)]
          [] OTHER ->
                [symbol |-> Str(Digits(n)), name |-> nm]

Misses(m, df) ==
    Cardinality({i \in 1..Len(df) : df[i][SearchColumn(m)] = Str(TxtC)})

ServiceIdle ==
    /\ market = "A"
    /\ svc = "up"
    /\ boot = [k \in Keys("A") |-> "absent"]
    /\ clock = 0
    /\ events = 0
    /\ cache = [k \in Keys("A") |-> None]
    /\ cache_timestamp = [k \in Keys("A") |-> NoneTs]
    /\ file = [k \in Keys("A") |-> NoFile]
    /\ task = [t \in Tasks |-> IdleTask]

SearchInit ==
    /\ ServiceIdle
    /\ s_market \in Markets
    /\ s_kw \in SearchKeywords
    /\ s_df = <<>>
    /\ s_res = NoResult
    /\ AnalyzerIdle

AddRow ==
    /\ Len(s_df) < MaxRows
    /\ \E hit \in BOOLEAN :
          /\ ~hit => Misses(s_market, s_df) < MaxMiss
          /\ s_df' = Append(s_df, SearchRow(s_market, Len(s_df) + 1, hit))
    /\ s_res' = NoResult
    /\ UNCHANGED <<s_market, s_kw, svcVars, genVars>>

DoSearch ==
    /\ s_res = NoResult
    /\ s_res' = search_result(s_market, s_df, s_kw)
    /\ UNCHANGED <<s_market, s_kw, s_df, svcVars, genVars>>

SearchNext == AddRow \/ DoSearch

SpecSearch == SearchInit /\ [][SearchNext]_vars

----------------------------------------------------------------------------
(* Lookups on short tables of any cells: tables of up to MaxLookupRows      *)
(* rows, in which a symbol can occur more than once and a name or a price   *)
(* can be missing, are searched and asked for the detail of a symbol.       *)
(* s_kw holds the argument of the last lookup, a keyword or a symbol.       *)

Txt9 == <<"9">>

LookupSymbols == {Txt007, Txt010, Txt9}

\* the rows a table of this harness is made of
LookupRows(m) ==
    CASE m = "US" ->
            {[name |-> Str(TxtC), cname |-> n, symbol |-> Str(sy)] :
                n \in {Str(TxtAB), Str(TxtC), NaN}, sy \in {Txt007, Txt010}}
      [] m = "FUND" ->
            {[symbol |-> Str(sy), name |-> n, price |-> pr] :
                n \in {Str(TxtAB), NaN}, sy \in {Txt007, Txt010},
                pr \in {Num(<<"2">>), NaN}}
      [] OTHER ->
            {[symbol |-> Str(sy), name |-> n] :
                n \in {Str(TxtAB), Str(TxtC), NaN}, sy \in {Txt007, Txt010}}

LookupInit ==
    /\ ServiceIdle
    /\ s_market \in Markets
    /\ s_kw = <<>>
    /\ s_df = <<>>
    /\ s_res = NoResult
    /\ AnalyzerIdle

PutRow ==
    /\ Len(s_df) < MaxLookupRows
    /\ \E row \in LookupRows(s_market) : s_df' = Append(s_df, row)
    /\ s_kw' = <<>>
    /\ s_res' = NoResult
    /\ UNCHANGED <<s_market, svcVars, genVars>>

Search ==
    /\ s_res = NoResult
    /\ \E keyword \in SearchKeywords :
          /\ s_kw' = keyword
          /\ s_res' = search_result(s_market, s_df, keyword)
    /\ UNCHANGED <<s_market, s_df, svcVars, genVars>>

Detail ==
    /\ s_res = NoResult
    /\ \E symbol \in LookupSymbols :
          /\ s_kw' = symbol
          /\ s_res' = detail_result(s_market, s_df, symbol)
    /\ UNCHANGED <<s_market, s_df, svcVars, genVars>>

LookupNext == PutRow \/ Search \/ Detail

SpecLookup == LookupInit /\ [][LookupNext]_vars

----------------------------------------------------------------------------
(* GeminiAnalyzer.get_ai_analysis: an async generator of JSON events.      *)
(* The whole body is inside one try whose handler, except Exception,       *)
(* yields the error event.  The generator is followed from one suspension  *)
(* point (a yield) to the next; position "last" is the yield of the        *)
(* completed or of the error event.                                        *)

MaxChunks == 3

NL == "\n"

\* chunk.text of the chunks of the provider stream: text, text that ends a
\* line, no text, and None
ChunkTexts == {<<"a">>, <<"a", NL>>, <<>>}
Chunks == {Some(x) : x \in ChunkTexts} \cup {None}

\* buffer.endswith('\n')
endswith_NL(buffer) == Len(buffer) > 0 /\ buffer[Len(buffer)] = NL

\* the three events, before json.dumps
Analyzing(text) == [status |-> "analyzing", ai_analysis_chunk |-> text]
Completed(score, recommendation) ==
    [status |-> "completed", score |-> score, recommendation |-> recommendation]
CompletedFull(text, score, recommendation) ==
    [status |-> "completed", analysis |-> text, score |-> score,
     recommendation |-> recommendation]
ErrorEvent(e) == [status |-> "error", error |-> e]

\* what _calculate_analysis_score and _extract_recommendation of the base
\* class AIAnalyzer return: a number and one of its recommendation words
Scores == {"0", "100"}
Recommendations == {"buy", "hold"}

GenVarsOnly == UNCHANGED <<svcVars, searchVars>>

\* calling the async generator function makes the generator object
get_ai_analysis ==
    /\ gen = NoGen
    /\ \E stream \in BOOLEAN :
          gen' = [NoGen EXCEPT !.pc = "prepare", !.stream = stream]
    /\ UNCHANGED yielded
    /\ GenVarsOnly

\* control passes to the handler with exception e
Raise(e) ==
    gen' = [gen EXCEPT !.pc = "except", !.e = e, !.at_yield = FALSE]

\* the indicators, the technical summary and the prompt: df.iloc[-1] and
\* the column reads raise on a table without rows or columns
Prepare ==
    /\ gen.pc = "prepare"
    /\ \/ gen' = [gen EXCEPT !.pc = "request"]
       \/ Raise("prepare")
    /\ UNCHANGED yielded
    /\ GenVarsOnly

\* genai.Client(...) and generate_content_stream / generate_content
Request ==
    /\ gen.pc = "request"
    /\ \/ /\ gen.stream
          /\ gen' = [gen EXCEPT !.pc = "loop"]
       \/ /\ ~gen.stream
          /\ \E text \in ChunkTexts :
                gen' = [gen EXCEPT !.pc = "finish", !.buffer = text]
       \/ Raise("request")
    /\ UNCHANGED yielded
    /\ GenVarsOnly

\* one iteration of `for chunk in response`: buffer += chunk.text raises
\* TypeError on None, otherwise the fragment is yielded
NextChunk ==
    /\ gen.pc = "loop"
    /\ gen.chunk_count < MaxChunks
    /\ \E chunk \in Chunks :
          IF chunk = None
          THEN /\ gen' = [gen EXCEPT !.pc = "except", !.e = "TypeError",
                                     !.at_yield = FALSE,
                                     !.chunk_count = @ + 1]
               /\ UNCHANGED yielded
          ELSE /\ gen' = [gen EXCEPT !.buffer = @ \o chunk.v,
                                     !.chunk_count = @ + 1,
                                     !.at_yield = TRUE]
               /\ yielded' = Append(yielded, Analyzing(chunk.v))
    /\ GenVarsOnly

\* the provider stream fails, and the handler yields while the loop goes on
StreamRaise_Resume ==
    /\ gen.pc = "loop"
    /\ gen' = [gen EXCEPT !.e = "stream", !.at_yield = TRUE]
    /\ yielded' = Append(yielded, ErrorEvent("stream"))
    /\ GenVarsOnly

\* the provider stream fails: the iteration raises
StreamRaise ==
    /\ gen.pc = "loop"
    /\ Raise("stream")
    /\ UNCHANGED yielded
    /\ GenVarsOnly

\* the provider stream ends: a line end is yielded when the text does not
\* end with one
StreamEnd ==
    /\ gen.pc = "loop"
    /\ IF gen.buffer # <<>> /\ ~endswith_NL(gen.buffer)
       THEN /\ yielded' = Append(yielded, Analyzing(<<NL>>))
            /\ gen' = [gen EXCEPT !.pc = "finish", !.at_yield = TRUE]
       ELSE /\ UNCHANGED yielded
            /\ gen' = [gen EXCEPT !.pc = "finish", !.at_yield = FALSE]
    /\ GenVarsOnly

\* recommendation and score are computed, or json.dumps or one of the two
\* computations raises; then the completed event is yielded
Finish ==
    /\ gen.pc = "finish"
    /\ \/ \E score \in Scores, recommendation \in Recommendations :
            /\ yielded' = Append(yielded,
                 IF gen.stream THEN Completed(score, recommendation)
                 ELSE CompletedFull(gen.buffer, score, recommendation))
            /\ gen' = [gen EXCEPT !.pc = "last", !.at_yield = TRUE]
       \/ /\ Raise("finish")
          /\ UNCHANGED yielded
    /\ GenVarsOnly

\* except Exception as e: the error event is yielded
Except ==
    /\ gen.pc = "except"
    /\ yielded' = Append(yielded, ErrorEvent(gen.e))
    /\ gen' = [gen EXCEPT !.pc = "last", !.at_yield = TRUE]
    /\ GenVarsOnly

\* asked for the next event after the last yield, the body ends
Exhaust ==
    /\ gen.pc = "last"
    /\ gen' = [gen EXCEPT !.pc = "returned", !.at_yield = FALSE]
    /\ UNCHANGED yielded
    /\ GenVarsOnly

\* the consumer closes the generator where it is suspended: GeneratorExit
\* is not an Exception and the handler does not run
Close ==
    /\ gen.at_yield \/ gen.pc = "prepare"
    /\ gen' = [gen EXCEPT !.pc = "closed", !.at_yield = FALSE]
    /\ UNCHANGED yielded
    /\ GenVarsOnly

AnalysisInit ==
    /\ ServiceIdle
    /\ SearchIdle
    /\ AnalyzerIdle

AnalysisNext ==
    \/ get_ai_analysis
    \/ Prepare
    \/ Request
    \/ NextChunk
    \/ StreamRaise
    \/ StreamEnd
    \/ Finish
    \/ Except
    \/ Exhaust
    \/ Close

SpecAnalysis == AnalysisInit /\ [][AnalysisNext]_vars

----------------------------------------------------------------------------
(* C10.  Search cap and order: for every table and keyword the search       *)
(* returns the first min(cap, m) matching rows, formatted, in the order of  *)
(* the table, where m is the number of matching rows and cap is 10 for the  *)
(* equity services and 20 for funds.                                        *)

\* the rows the mask of the search selects
Matching(m, df, keyword) == SelectSeq(df, LAMBDA row : Mask(m, row, keyword))

\* the first min(cap, Len(rows)) of the rows, formatted
Capped(m, rows, cap) ==
    [i \in 1..Min(cap, Len(rows)) |-> FormatRow(m, rows[i])]

C10_SearchCapAndOrder ==
    s_res.status # "none" =>
        s_res = Ok("search",
                   Capped(s_market, Matching(s_market, s_df, s_kw),
                          IF s_market = "FUND" THEN 20 ELSE 10))

\* the same for the searches that return: what they return is the first
\* min(cap, m) matching rows
SearchCapWhenReturned ==
    s_res.status = "ok" =>
        s_res.rows = Capped(s_market, Matching(s_market, s_df, s_kw),
                            IF s_market = "FUND" THEN 20 ELSE 10)

----------------------------------------------------------------------------
(* C11.  Search matching: in every service a row is in the result of a      *)
(* search exactly when the keyword is a case-insensitive substring of the   *)
(* row's name (for funds: of its name or of its symbol); no other field     *)
(* decides.  Stated on tables short enough for the cap to play no part.     *)

\* the keyword, as plain text, occurs in the cell, letter case aside
IsSubstring(c, keyword) ==
    /\ c.t = "str"
    /\ \E i \in 0..(Len(c.s) - Len(keyword)) :
          LowerText(SubSeq(c.s, i + 1, i + Len(keyword))) = LowerText(keyword)

NameMatch(m, row, keyword) ==
    \/ IsSubstring(row["name"], keyword)
    \/ m = "FUND" /\ IsSubstring(row["symbol"], keyword)

\* the row is one of the rows the search gave its caller
InResult(m, row, res) ==
    \E j \in 1..Len(res.rows) : res.rows[j] = FormatRow(m, row)

C11_SearchMatching ==
    (s_res.status # "none" /\ Len(s_df) <= 10) =>
        \A i \in 1..Len(s_df) :
            InResult(s_market, s_df[i], s_res) <=> NameMatch(s_market, s_df[i], s_kw)

----------------------------------------------------------------------------
(* C12.  When a table is available and no row matches the keyword, the      *)
(* search returns the empty sequence and does not raise.                    *)

C12_NoMatchEmpty ==
    (/\ s_res.status # "none"
     /\ \A i \in 1..Len(s_df) : ~NameMatch(s_market, s_df[i], s_kw)) =>
        s_res = Ok("search", <<>>)

----------------------------------------------------------------------------
(* C13.  get_detail on a table with no row of the requested symbol raises   *)
(* a not-found error whose message holds the requested symbol, and returns  *)
(* no mapping; when rows have the symbol it returns one mapping with all    *)
(* its keys, whose values are those of the first such row (the name key of  *)
(* the US service carries the row's cname).                                 *)

HasSymbol(df, symbol) == \E i \in 1..Len(df) : df[i]["symbol"] = Str(symbol)

\* the first row of the table with the symbol
FirstRow(df, symbol) ==
    df[CHOOSE i \in 1..Len(df) :
          /\ df[i]["symbol"] = Str(symbol)
          /\ \A j \in 1..(i - 1) : df[j]["symbol"] # Str(symbol)]

\* the mapping holds the values of the row
DetailOfRow(m, symbol, row, d) ==
    IF m = "FUND"
    THEN /\ DOMAIN d = {"name", "symbol", "price"}
         /\ d["symbol"] = Str(symbol)
         /\ d["name"] = IF notna(row["name"]) THEN row["name"] ELSE Str(<<>>)
         /\ d["price"] = IF notna(row["price"]) THEN row["price"] ELSE Num(<<"0">>)
    ELSE /\ DOMAIN d = {"symbol", "name"}
         /\ d["symbol"] = Str(symbol)
         /\ d["name"] = row[IF m = "US" THEN "cname" ELSE "name"]

C13_DetailNotFound ==
    s_res.op = "detail" =>
        IF HasSymbol(s_df, s_kw)
        THEN /\ s_res.status = "ok"
             /\ Len(s_res.rows) = 1
             /\ DetailOfRow(s_market, s_kw, FirstRow(s_df, s_kw), s_res.rows[1])
        ELSE /\ s_res.status = "err"
             /\ s_res.err = "notfound"
             /\ s_res.msg = s_kw
             /\ s_res.rows = <<>>

\* a detail was asked of a populated table that has no row of the symbol
C13_Witness ==
    /\ s_res.op = "detail"
    /\ Len(s_df) > 0
    /\ ~HasSymbol(s_df, s_kw)
    /\ s_res.err = "notfound"

----------------------------------------------------------------------------
(* C14.  A lookup that finds the cache fresh completes without a            *)
(* suspension point: from the moment it has found the cache fresh until it  *)
(* returns, the event loop runs no step of another lookup, in every         *)
(* service.                                                                 *)

\* the lookup of task t has found its cache fresh and has not ended yet
FoundFresh(t) ==
    \/ task[t].pc = "ret_cache"
    \/ task[t].pc = "lookup" /\ task[t].fetches = 0

\* task u takes a step that runs on the event loop in every service: it is
\* called, it computes its result after the await, or it returns
LoopStep(u) ==
    /\ task[u].pc \in {"idle", "lookup", "done"}
    /\ task'[u].pc # task[u].pc

C14_Step(t) ==
    (FoundFresh(t) /\ task'[t].pc # "idle") =>
        \A u \in Tasks \ {t} : ~LoopStep(u)

C14_FreshNoSuspension == [][\A t \in Tasks : C14_Step(t)]_vars

----------------------------------------------------------------------------
(* C15.  The save is atomic for readers of the file: at every point of a    *)
(* refresh, overlapping refreshes of one key included, the persisted file   *)
(* is a complete table, the one saved before or the new one, never a file   *)
(* that is partly written.                                                  *)

C15_Step(k) ==
    file'[k] # file[k] =>
        /\ file'[k].kind = "table"
        /\ \E t \in Tasks : file'[k] = to_csv(market, task[t].df, task[t].stamp)

C15_AtomicSave == [][\A k \in Keys(market) : C15_Step(k)]_vars

----------------------------------------------------------------------------
(* C16.  A table is not changed after it has been stored as the cache or    *)
(* returned to a lookup: the cache changes only by a refresh (or a          *)
(* construction) assigning another table, and every table that is stored    *)
(* or has been returned holds complete rows with the columns of the         *)
(* service and no date column.                                              *)

\* every row has the columns of the in-memory table, and only those
Canonical(df) == \A i \in 1..Len(df) : DOMAIN df[i] = Columns(market)

\* the tables a reader can hold: the caches, and the table a lookup has
\* been given
SnapshotsCanonical ==
    /\ \A k \in Keys(market) : cache[k].some => Canonical(cache[k].v)
    /\ \A t \in Tasks : task[t].pc \in {"set_ts", "lookup"} => Canonical(task[t].df)

\* a new instance has been constructed
Constructed == events' = events + 1 /\ \A t \in Tasks : task'[t] = IdleTask

C16_Step ==
    /\ SnapshotsCanonical
    /\ SnapshotsCanonical'
    /\ \A k \in Keys(market) :
          cache'[k] # cache[k] =>
              \/ Constructed
              \/ \E t \in Tasks :
                    /\ task[t].pc = "set_cache"
                    /\ task'[t].pc = "set_ts"
                    /\ cache'[k] = Some(task'[t].df)
    /\ \A t \in Tasks :
          (task[t].pc \in {"set_ts", "lookup"} /\ Moves(t)) =>
              task'[t].df = task[t].df

----------------------------------------------------------------------------
(* C17.  No null reaches a caller: every field of every row that a search   *)
(* or a detail returns is non-null, in every service; a missing string is   *)
(* returned as '' and a missing number as 0.0.                              *)

\* the rows of the table a returned mapping can have come from
SourceRows(m, df, res) ==
    IF res.op = "detail"
    THEN {i \in 1..Len(df) : df[i]["symbol"] = res.rows[1]["symbol"]}
    ELSE 1..Len(df)

\* the mapping is a row with every missing value replaced by the default
\* of its type (the detail of an equity service has the keys symbol, name;
\* the name of the US detail is the row's cname)
Defaulted(m, op, row, d) ==
    \A c \in DOMAIN d :
        LET v == IF op = "detail" /\ m = "US" /\ c = "name" THEN row["cname"]
                 ELSE row[c]
        IN  d[c] = IF notna(v) THEN v
                   ELSE IF c = "price" THEN Num(<<"0">>) ELSE Str(<<>>)

C17_NoNull ==
    s_res.status = "ok" =>
        \A j \in 1..Len(s_res.rows) :
            /\ \A c \in DOMAIN s_res.rows[j] : notna(s_res.rows[j][c])
            /\ \E i \in SourceRows(s_market, s_df, s_res) :
                  Defaulted(s_market, s_res.op, s_df[i], s_res.rows[j])

----------------------------------------------------------------------------
(* C18.  A provider call that returns no rows is a failed fetch: the        *)
(* refresh raises to its caller, and neither the table in memory nor the    *)
(* persisted file is replaced by a catalog of no rows.                      *)

C18_Step(t) ==
    /\ (task[t].pc = "fetch" /\ Moves(t) /\ task'[t].pc # "raised") =>
          Len(task'[t].df) > 0
    /\ (task[t].pc = "set_cache" /\ Moves(t)) =>
          LET k == KeyOf(task[t].kind)
          IN  cache'[k] # cache[k] => Len(cache'[k].v) > 0
    /\ (task[t].pc = "to_csv_write" /\ Moves(t)) =>
          Len(file'[KeyOf(task[t].kind)].rows) > 0

C18_EmptyResultIsFailure == [][\A t \in Tasks : C18_Step(t)]_vars

----------------------------------------------------------------------------
(* C19.  Cancelling a caller that is suspended in a refresh does not cancel *)
(* the provider call: the cancellation leaves the call under way in its     *)
(* worker thread, and the call then still ends, by returning or by raising. *)

\* the caller of task t is cancelled in this step
Cancels(t) == ~task[t].cancelled /\ task'[t].cancelled

C19_CancelStep(t) ==
    Cancels(t) =>
        /\ task'[t].pc = task[t].pc
        /\ task'[t].fetches = task[t].fetches
        /\ UNCHANGED <<cache, cache_timestamp, file>>

C19_FetchSurvivesCancel ==
    /\ [][\A t \in Tasks : C19_CancelStep(t)]_vars
    /\ \A t \in Tasks :
          (task[t].cancelled /\ task[t].pc = "fetch") ~> (task[t].fetches = 1)

\* the provider call of a lookup cancelled during its refresh has ended
C19_Witness ==
    \E t \in Tasks :
        /\ task[t].cancelled
        /\ task[t].fetches = 1
        /\ task[t].pc = "done"

----------------------------------------------------------------------------
(* C20.  The analysis generator yields events with status "analyzing" and *)
(* then exactly one terminal event, "completed" with score and             *)
(* recommendation or "error"; nothing is yielded after the terminal event, *)
(* also when the provider stream fails part-way through.                   *)

IsTerminal(ev) == ev.status \in {"completed", "error"}

EventsInOrder(evs) ==
    \A i \in 1..Len(evs) :
        /\ evs[i].status \in {"analyzing", "completed", "error"}
        /\ IsTerminal(evs[i]) => i = Len(evs)
        /\ evs[i].status = "completed" =>
              {"score", "recommendation"} \subseteq DOMAIN evs[i]

C20_AnalysisEvents ==
    /\ EventsInOrder(yielded)
    /\ gen.pc = "returned" =>
          Len(yielded) > 0 /\ IsTerminal(yielded[Len(yielded)])

\* a stream that failed after a fragment: the fragment, then the error event
C20_Witness ==
    /\ gen.pc = "returned"
    /\ gen.stream
    /\ gen.e = "stream"
    /\ gen.chunk_count > 0
    /\ Len(yielded) > 1
    /\ yielded[1].status = "analyzing"
    /\ yielded[Len(yielded)].status = "error"

----------------------------------------------------------------------------
(* C21.  A refresh goes: the provider fetch completes, captured_at is set  *)
(* to the time it is then, the file is saved, the snapshot in memory is    *)
(* replaced.  So the timestamp a refresh records is not earlier than the   *)
(* moment its fetch completed, it is recorded before the file is written,  *)
(* and the snapshot is replaced only after the file was written.           *)

\* the provider call of task t returns in this step
FetchCompletes(t) == task[t].pc = "fetch" /\ task'[t].pc = "to_csv_open"

\* task t writes its table to the file in this step
Saves(t) == task[t].pc = "to_csv_write" /\ task'[t].pc = "set_cache"

\* task t replaces the snapshot in memory in this step
Replaces(t) == task[t].pc = "set_cache" /\ task'[t].pc = "set_ts"

C21_Step(t) ==
    LET k == KeyOf(task[t].kind)
    IN  /\ FetchCompletes(t) => NewTimestamp(t) >= clock
        /\ Saves(t) => cache_timestamp[k] = Some(NewTimestamp(t))
        /\ (task'[t].pc = "set_cache" /\ task[t].pc # "set_cache") =>
              Saves(t) /\ file'[k] = to_csv(market, task[t].df, task[t].stamp)

C21_RefreshOrder == [][\A t \in Tasks : C21_Step(t)]_vars

----------------------------------------------------------------------------
(* C22.  Refreshes are not de-duplicated: a caller whose freshness check   *)
(* finds the snapshot stale calls the provider also when another caller's  *)
(* provider call for the same key is under way, so two concurrent callers  *)
(* of one stale key can each call the provider.                            *)

\* another lookup's provider call for the key of task t is under way
OtherFetching(t) ==
    \E u \in Tasks \ {t} :
        /\ task[u].pc = "fetch"
        /\ KeyOf(task[u].kind) = KeyOf(task[t].kind)

\* the snapshot task t would be given is there and is stale
FoundStale(t) ==
    LET k == KeyOf(task[t].kind)
    IN  /\ cache[k].some
        /\ cache_timestamp[k].some
        /\ ~is_fresh(market, task[t].now, cache_timestamp[k].v)

C22_Step(t) ==
    (task[t].pc = "chk_ts" /\ Moves(t) /\ FoundStale(t) /\ OtherFetching(t)) =>
        task'[t].pc = "fetch"

C22_NoDeduplication == [][\A t \in Tasks : C22_Step(t)]_vars

\* two callers of one stale key, each with its provider call under way
C22_Witness ==
    /\ \A t \in Tasks :
          task[t].pc = "fetch" /\ task[t].kind # "OTHER" /\ FoundStale(t)
    /\ \A t, u \in Tasks : KeyOf(task[t].kind) = KeyOf(task[u].kind)
    /\ Cardinality(Tasks) > 1

----------------------------------------------------------------------------
(* C23.  Last write wins on both sides: once the concurrent refreshes of   *)
(* one key have all completed, the file and the snapshot in memory hold    *)
(* the rows of the same refresh, for every interleaving of their steps.    *)

\* task t has completed a refresh of key k and not yet used the table
Refreshed(t, k) ==
    /\ task[t].pc = "lookup"
    /\ task[t].fetches = 1
    /\ KeyOf(task[t].kind) = k

\* the file at key k holds the rows of the snapshot in memory
SameRows(k) ==
    /\ file[k].kind = "table"
    /\ cache[k].some
    /\ Len(file[k].rows) = Len(cache[k].v)
    /\ \A i \in 1..Len(cache[k].v) :
          \A c \in Columns(market) :
              file[k].rows[i][c] = CellText(cache[k].v[i][c])

C23_LastWriteWins ==
    \A k \in Keys(market) :
        (\A t \in Tasks : Refreshed(t, k)) => SameRows(k)

----------------------------------------------------------------------------
(* C24.  The provider call runs on a worker, and a lookup suspends only to *)
(* wait for the provider call of a refresh that was required: another      *)
(* lookup takes a step on the event loop only while every lookup in        *)
(* progress is waiting for its provider call.                              *)

\* the provider call of task t is under way, or has raised and the
\* coroutine has not been resumed yet
AwaitsProvider(t) == task[t].pc \in {"fetch", "raised"}

C24_Step(t) ==
    (task[t].pc # "idle" /\ \E u \in Tasks \ {t} : LoopStep(u)) =>
        AwaitsProvider(t)

C24_SuspendsOnlyForFetch == [][\A t \in Tasks : C24_Step(t)]_vars

----------------------------------------------------------------------------
(* C25.  In every state a freshness check can read, also between the      *)
(* steps of a refresh on a worker thread, a snapshot in memory has a       *)
(* timestamp and the timestamp is that of this snapshot;                   *)
(* so no freshness check subtracts a missing timestamp or pairs a new      *)
(* snapshot with the timestamp of an older one.                            *)

\* a refresh has installed its snapshot at key k and not yet its timestamp
Unpaired(k) ==
    \E t \in Tasks : task[t].pc = "set_ts" /\ KeyOf(task[t].kind) = k

\* a lookup is at its freshness check of key k and can take the step that
\* reads the two fields
Observes(t, k) ==
    /\ CanRun(t)
    /\ task[t].pc \in {"chk_cache", "chk_ts"}
    /\ KeyOf(task[t].kind) = k

C25_SnapshotHasItsTimestamp ==
    /\ \A k \in Keys(market) :
          (\E t \in Tasks : Observes(t, k)) =>
              (cache[k].some => cache_timestamp[k].some /\ ~Unpaired(k))
    /\ \A t \in Tasks : task[t].res # Error("any", "TypeError")

----------------------------------------------------------------------------
(* C26.  Fund kinds are isolated: a step of a lookup with kind K changes   *)
(* the snapshot, the timestamp and the file of no key other than K; a      *)
(* lookup whose kind is neither 'ETF' nor 'LOF' changes none at all.       *)

C26_Step(t) ==
    Moves(t) =>
        \A k \in Keys(market) :
            k # task[t].kind =>
                /\ cache'[k] = cache[k]
                /\ cache_timestamp'[k] = cache_timestamp[k]
                /\ file'[k] = file[k]

C26_KindsIsolated == [][\A t \in Tasks : C26_Step(t)]_vars

----------------------------------------------------------------------------
(* C27.  Every file written by a successful refresh can be loaded: after a *)
(* refresh that ran alone, whatever table it installed (the table of no    *)
(* rows included), a construction over its file does not raise and seeds   *)
(* the cache with the table installed.                                     *)

C27_WrittenFileLoads ==
    \A t \in Tasks :
        RefreshedAlone(t) =>
            LET k == KeyOf(task[t].kind)
            IN  /\ ~LoadRaises(file[k])
                /\ LoadedCache(market, file[k]).some
                /\ Len(LoadedCache(market, file[k]).v) = Len(cache[k].v)

----------------------------------------------------------------------------
(* C28.  Lookups are read-only on a fresh cache: no step of a search or a  *)
(* detail lookup that found the cache fresh, whether it ends with rows,    *)
(* with no rows or with not-found, changes the snapshot in memory, its     *)
(* timestamp or the file.                                                  *)

\* task t takes a step of its own (a restart is not one)
StepOf(t) == task'[t].pc # task[t].pc /\ events' = events

\* task t is answered from the snapshot in memory
ServedFresh(t) ==
    \/ task[t].pc = "chk_ts" /\ task'[t].pc = "ret_cache"
    \/ task[t].pc = "ret_cache"
    \/ task[t].pc = "lookup" /\ task[t].fetches = 0
    \/ /\ task[t].pc = "done" /\ task[t].fetches = 0
       /\ task[t].res.op \in {"search", "detail"}

C28_Step(t) ==
    (StepOf(t) /\ ServedFresh(t)) => UNCHANGED <<cache, cache_timestamp, file>>

C28_FreshLookupReadOnly == [][\A t \in Tasks : C28_Step(t)]_vars

\* a detail lookup answered not-found from a fresh snapshot
C28_Witness ==
    \E t \in Tasks :
        /\ task[t].pc = "done"
        /\ task[t].fetches = 0
        /\ task[t].res = NotFound(Symbol)
        /\ cache[KeyOf(task[t].kind)].some
        /\ cache_timestamp[KeyOf(task[t].kind)].some
        /\ is_fresh(market, task[t].now, cache_timestamp[KeyOf(task[t].kind)].v)
====
